---- MODULE Spec2Model ----
(***************************************************************************)
(* Model of FileFolderMeta.py: the entity classes (FFM_Directory,          *)
(* FFM_File, FFM_NiemaFS), the dispatcher get_obj, the container tree      *)
(* assembler FFM_NiemaFS.__iter__, the serializer to_dict and main().      *)
(*                                                                         *)
(* Encoding of Python values:                                              *)
(*   - an optional value is a sequence of length 0 (None) or 1;            *)
(*   - a file name is the sequence of its dot-separated parts, a path is   *)
(*     the sequence of its names ('/' in str(path) <=> Len(path) > 1);     *)
(*   - a byte string is a sequence of small integers;                      *)
(*   - Python objects live in a heap (world.heap) and are referred to by   *)
(*     index, so that the aliasing between a container's child lists and   *)
(*     fs_path_to_obj is kept;                                             *)
(*   - a method takes the world and returns [w |-> world', ret |-> value]; *)
(*     a raised exception is world.exc # "" and is propagated by every     *)
(*     caller until an except clause handles it.                           *)
(***************************************************************************)
EXTENDS Integers, Sequences, FiniteSets, TLC

VARIABLES disk, input, input_format, stream, pc, world, root, out, iters

vars == <<disk, input, input_format, stream, pc, world, root, out, iters>>

(* ------------------------------ bounds -------------------------------- *)
MaxRecs == 3      \* longest member stream of the root container
RecLimit == 4     \* interpreter recursion limit, counted in get_obj frames
MaxIters == 2     \* iterations of one container entity (SpecIter)

(* --------------------------- Python values ---------------------------- *)
NoneV == <<>>
Some(x) == <<x>>
Last(s) == s[Len(s)]

\* FileFolderMeta.py:22
COMPRESSED_EXTENSIONS == {"GZ", "XZ"}

\* str.upper() on the extension strings that occur
UpperTable ==
  [zip |-> "ZIP", tar |-> "TAR", gz |-> "GZ", xz |-> "XZ", txt |-> "TXT",
   auto |-> "AUTO", dir |-> "DIR", file |-> "FILE", bin |-> "BIN", iso |-> "ISO"]

\* FileFolderMeta.py:64-65
clean_ext(ext) == IF ext \in DOMAIN UpperTable THEN UpperTable[ext] ELSE ext

\* pathlib: PurePath.name, .suffix, .suffixes, .parent
PathName(path) == Last(path)
suffix(path) == IF Len(PathName(path)) > 1 THEN Last(PathName(path)) ELSE ""
suffixes(path) == Tail(PathName(path))
parent(path) == SubSeq(path, 1, Len(path) - 1)

\* str.__lt__ on names: parts in ASCII order ('.' sorts below every letter)
PartOrder ==
  <<"a", "auto", "b", "bin", "d", "dir", "f", "file", "g", "gz", "iso", "m",
    "n", "tar", "top", "txt", "xz", "z", "zip">>
PartRank(p) == CHOOSE i \in 1..Len(PartOrder) : PartOrder[i] = p

RECURSIVE NameLess(_, _)
NameLess(a, b) ==
  IF Len(b) = 0 THEN FALSE
  ELSE IF Len(a) = 0 THEN TRUE
  ELSE IF PartRank(a[1]) # PartRank(b[1]) THEN PartRank(a[1]) < PartRank(b[1])
  ELSE NameLess(Tail(a), Tail(b))

\* FileFolderMeta.py:21 strftime(TIMESTAMP_FORMAT_STRING) on the times that occur
TimeStr == <<"2020-01-01 00:00:00", "2021-02-02 00:00:00", "2022-03-03 00:00:00">>
strftime(t) == TimeStr[t]

(* ------------------------------- bytes -------------------------------- *)
GzMagic == 31
XzMagic == 253
MagicOf == [GCM |-> 71, ISO |-> 73, TAR |-> 84, TGC |-> 67, ZIP |-> 80, WII |-> 87]

\* gzip.decompress / lzma.decompress: strip the wrapper or fail
Unwrap(magic, data) ==
  IF Len(data) > 1 /\ data[1] = magic THEN Some(Tail(data)) ELSE NoneV

\* FileFolderMeta.py:68-75; NoneV stands for the exception of the library
decompress(path, data) ==
  LET ext == clean_ext(suffix(path))
  IN  IF ext = "GZ" THEN Unwrap(GzMagic, data)
      ELSE IF ext = "XZ" THEN Unwrap(XzMagic, data)
      ELSE Some(data)

\* FileFolderMeta.py:25-30: a digest is a value determined by algorithm and bytes
HASH_FUNCTIONS == {"crc32", "md5", "sha1", "sha256"}
Digest(k, data) == <<"0x", k, data>>

(* --------------------------- member records --------------------------- *)
Rec(p, t, d) == [path |-> p, mod_time |-> t, data |-> d, bad |-> FALSE]

RawB == <<1, 2, 3>>
RawA == <<4>>
InnerOk == <<80, 1>>       \* a zip holding one file
InnerOrphan == <<80, 2>>   \* a zip whose reader emits a child before its parent

R_d == Rec(<< <<"d">> >>, NoneV, NoneV)
R_db == Rec(<< <<"d">>, <<"b">> >>, Some(1), Some(RawB))
R_da == Rec(<< <<"d">>, <<"a">> >>, NoneV, Some(RawA))
R_nzip == Rec(<< <<"n", "zip">> >>, NoneV, Some(InnerOk))
R_mzip == Rec(<< <<"m", "zip">> >>, Some(2), Some(InnerOrphan))
R_dfile == Rec(<< <<"d">> >>, Some(2), Some(RawA))
R_ggz == Rec(<< <<"g", "gz">> >>, NoneV, Some(RawB))
R_bad == [path |-> <<>>, mod_time |-> NoneV, data |-> NoneV, bad |-> TRUE]

Records == {R_d, R_db, R_da, R_nzip, R_mzip, R_dfile, R_ggz, R_bad}

RECURSIVE SeqsUpTo(_, _)
SeqsUpTo(S, n) ==
  IF n = 0 THEN {<<>>}
  ELSE LET T == SeqsUpTo(S, n - 1)
       IN  T \cup {Append(s, x) : s \in {t \in T : Len(t) = n - 1}, x \in S}

\* what the reader of an archive yields, by the archive's content index
ArchiveStream(k) ==
  IF k = 0 THEN stream
  ELSE IF k = 1 THEN <<Rec(<< <<"f">> >>, Some(3), Some(RawA))>>
  ELSE IF k = 2 THEN <<R_db>>
  ELSE <<>>

\* FileFolderMeta.py:49-61, 160: FORMAT_TO_NIEMAFS[fmt](BytesIO(data));
\* NoneV stands for the reader rejecting the bytes
OpenFS(fmt, data) ==
  IF Len(data) = 2 /\ data[1] = MagicOf[fmt] /\ data[2] \in 0..2
  THEN Some(ArchiveStream(data[2])) ELSE NoneV

(* ------------------------------- disk --------------------------------- *)
\* disk is a set of entries [path, kind, bytes, readable, ctime, mtime]
DirEntry(p) ==
  [path |-> p, kind |-> "dir", bytes |-> <<>>, readable |-> TRUE, ctime |-> 1, mtime |-> 1]
FileEntry(p, b, r) ==
  [path |-> p, kind |-> "file", bytes |-> b, readable |-> r, ctime |-> 1, mtime |-> 2]

exists(path) == \E e \in disk : e.path = path
DiskAt(path) == CHOOSE e \in disk : e.path = path
\* Path.is_dir(): relative paths are resolved against the working directory
is_dir(path) == \E e \in disk : e.path = path /\ e.kind = "dir"

\* Path.glob('*'): the entries directly below path, in an order the caller
\* must not rely on (here: descending by name)
RECURSIVE Descending(_)
Descending(S) ==
  IF S = {} THEN <<>>
  ELSE LET m == CHOOSE x \in S : \A y \in S : ~NameLess(PathName(x), PathName(y))
       IN  <<m>> \o Descending(S \ {m})
glob(path) ==
  Descending({e.path : e \in {d \in disk : Len(d.path) = Len(path) + 1
                                           /\ parent(d.path) = path}})

(* ------------------------------- world -------------------------------- *)
\* world = [heap, log, exc]; log is the trace of the effects the properties
\* talk about: disk reads, trial constructions, raised and handled exceptions
Ev(kind, id, path, info) == [ev |-> kind, id |-> id, path |-> path, info |-> info]
Note(w, kind, id, info) ==
  [w EXCEPT !.log = Append(@, Ev(kind, id, IF id = 0 THEN <<>> ELSE w.heap[id].path, info))]
NoteAt(w, kind, path, info) == [w EXCEPT !.log = Append(@, Ev(kind, 0, path, info))]
Raise(w, type, id) == [Note(w, "raise", id, type) EXCEPT !.exc = type]
Failed(w) == w.exc # ""
Ret(w, v) == [w |-> w, ret |-> v]
EmptyWorld == [heap |-> <<>>, log |-> <<>>, exc |-> ""]

Alloc(w, obj) == Ret([w EXCEPT !.heap = Append(@, obj)], Len(w.heap) + 1)

(* ------------------------------ entities ------------------------------ *)
\* One record shape for all classes; the fields a class does not define
\* keep their default and are never read for that class.
\* FileFolderMeta.py:78-97
FFM_Directory(path) ==
  [cls |-> "FFM_Directory", path |-> path, data |-> NoneV, children |-> NoneV,
   stat_result |-> NoneV, create_time |-> "None", mod_time |-> "None",
   format |-> "", fs |-> NoneV]

\* FileFolderMeta.py:109-114
FFM_File(path, data) ==
  [cls |-> "FFM_File", path |-> path, data |-> data, children |-> NoneV,
   stat_result |-> NoneV, create_time |-> "None", mod_time |-> "None",
   format |-> "", fs |-> NoneV]

\* FileFolderMeta.py:150-155
FFM_NiemaFS(fmt, path, data) ==
  [cls |-> "FFM_NiemaFS", path |-> path, data |-> data, children |-> NoneV,
   stat_result |-> NoneV, create_time |-> "None", mod_time |-> "None",
   format |-> fmt, fs |-> NoneV]

\* FileFolderMeta.py:115-119
get_data(w, id) ==
  IF w.heap[id].data # NoneV THEN Ret(w, w.heap[id].data[1])
  ELSE IF ~(exists(w.heap[id].path) /\ DiskAt(w.heap[id].path).kind = "file"
            /\ DiskAt(w.heap[id].path).readable)
  THEN Ret(Raise(w, "OSError", id), <<>>)
  ELSE Ret(Note([w EXCEPT !.heap[id].data = Some(DiskAt(w.heap[id].path).bytes)],
                "read", id, ""),
           DiskAt(w.heap[id].path).bytes)

\* FileFolderMeta.py:122-125
stat(w, id) ==
  IF w.heap[id].stat_result # NoneV THEN Ret(w, w.heap[id].stat_result[1])
  ELSE IF ~exists(w.heap[id].path) THEN Ret(Raise(w, "OSError", id), <<>>)
  ELSE LET st == [st_ctime |-> DiskAt(w.heap[id].path).ctime,
                  st_mtime |-> DiskAt(w.heap[id].path).mtime]
       IN  Ret(Note([w EXCEPT !.heap[id].stat_result = Some(st)], "stat", id, ""), st)

\* FileFolderMeta.py:130: self.create_time = ...strftime(...), s the result of stat()
SetCreateTime(s, id) ==
  IF Failed(s.w) THEN Ret(s.w, "None")
  ELSE Ret([s.w EXCEPT !.heap[id].create_time = strftime(s.ret.st_ctime)],
           strftime(s.ret.st_ctime))

\* FileFolderMeta.py:126-131
get_create_time(w, id) ==
  IF w.heap[id].create_time = "" THEN Ret(w, "None")
  ELSE IF w.heap[id].create_time = "None" THEN SetCreateTime(stat(w, id), id)
  ELSE Ret(w, w.heap[id].create_time)

\* FileFolderMeta.py:136: self.mod_time = ...strftime(...), s the result of stat()
SetModTime(s, id) ==
  IF Failed(s.w) THEN Ret(s.w, "None")
  ELSE Ret([s.w EXCEPT !.heap[id].mod_time = strftime(s.ret.st_mtime)],
           strftime(s.ret.st_mtime))

\* FileFolderMeta.py:132-137
get_mod_time(w, id) ==
  IF w.heap[id].mod_time = "" THEN Ret(w, "None")
  ELSE IF w.heap[id].mod_time = "None" THEN SetModTime(stat(w, id), id)
  ELSE Ret(w, w.heap[id].mod_time)

\* size and hashes taken over the decompressed payload
PayloadFieldsOfDecompressed(path, data) ==
  LET d == IF decompress(path, data) = NoneV THEN data ELSE decompress(path, data)[1]
  IN  ("size" :> Len(d)) @@ [k \in HASH_FUNCTIONS |-> Digest(k, d)]
\* FileFolderMeta.py:141-142: the size and the hashes of a payload
PayloadFields(path, data) ==
  ("size" :> Len(data)) @@ [k \in HASH_FUNCTIONS |-> Digest(k, data)]

\* FileFolderMeta.py:143-146: a timestamp that is None is left out
TimeField(k, v) == IF v = "None" THEN <<>> ELSE (k :> v)

\* FileFolderMeta.py:143-147, m the result of get_mod_time()
FileDictModTime(m, fields) ==
  IF Failed(m.w) THEN Ret(m.w, <<>>)
  ELSE Ret(m.w, fields @@ TimeField("mod_time", m.ret))

\* FileFolderMeta.py:143-146, c the result of get_create_time()
FileDictCreateTime(c, id, fields) ==
  IF Failed(c.w) THEN Ret(c.w, <<>>)
  ELSE FileDictModTime(get_mod_time(c.w, id), fields @@ TimeField("create_time", c.ret))

\* FileFolderMeta.py:139-142, d the result of get_size()'s get_data()
FileDictPayload(d, id) ==
  IF Failed(d.w) THEN Ret(d.w, <<>>)
  ELSE FileDictCreateTime(
         get_create_time(get_data(d.w, id).w, id), id,
         ("name" :> PathName(d.w.heap[id].path)) @@ ("format" :> "FILE")
           @@ PayloadFields(d.w.heap[id].path, get_data(d.w, id).ret))

\* FileFolderMeta.py:138-147
File_to_dict(w, id) == FileDictPayload(get_data(w, id), id)

(* ----------------------------- registry ------------------------------- *)
\* FileFolderMeta.py:253-264, 284 (niemafs.WiiFS importable)
INPUT_FORMAT_TO_CLASS ==
  [BIN |-> "FFM_IsoArchive", DIR |-> "FFM_Directory", FILE |-> "FFM_File",
   GCM |-> "FFM_GcmArchive", ISO |-> "FFM_IsoArchive", TAR |-> "FFM_TarArchive",
   TGC |-> "FFM_TgcArchive", ZIP |-> "FFM_ZipArchive", WII |-> "FFM_WiiArchive",
   AUTO |-> "get_obj"]

\* FileFolderMeta.py:221-250: the format tag each archive class ends up with
ClassFormat ==
  [FFM_ZipArchive |-> "ZIP", FFM_TarArchive |-> "TAR", FFM_IsoArchive |-> "ISO",
   FFM_GcmArchive |-> "GCM", FFM_TgcArchive |-> "TGC", FFM_WiiArchive |-> "WII"]

\* FileFolderMeta.py:273-275, when suffixes[-2] exists
FormatHint(path) ==
  IF clean_ext(suffix(path)) \in COMPRESSED_EXTENSIONS
  THEN clean_ext(suffixes(path)[Len(suffixes(path)) - 1])
  ELSE clean_ext(suffix(path))

\* an except clause that handles the reader's own errors only
CatchesReaderErrorsOnly(exc) == exc \in {"ReaderError", "DecompressError"}
\* an except clause that lets the integrity error through
CatchesAllButKeyError(exc) == exc # "KeyError"
\* FileFolderMeta.py:281: a bare except handles every exception
Catches(exc) == TRUE

\* sorted(..., key=lambda x: x.name): stable insertion sort of object ids
RECURSIVE InsertByName(_, _, _)
InsertByName(heap, sorted, id) ==
  IF sorted = <<>> THEN <<id>>
  ELSE IF NameLess(PathName(heap[id].path), PathName(heap[sorted[1]].path))
       THEN <<id>> \o sorted
       ELSE <<sorted[1]>> \o InsertByName(heap, Tail(sorted), id)
RECURSIVE SortByName(_, _)
SortByName(heap, ids) ==
  IF ids = <<>> THEN <<>>
  ELSE InsertByName(heap, SortByName(heap, SubSeq(ids, 1, Len(ids) - 1)), Last(ids))

\* FileFolderMeta.py:160: self.fs = FORMAT_TO_NIEMAFS[...](BytesIO(...)), fs the
\* reader or NoneV when it rejected the bytes
StoreReader(w, id, fs) ==
  IF fs = NoneV THEN Raise(w, "ReaderError", id)
  ELSE Note([w EXCEPT !.heap[id].fs = fs], "open", id, "")

\* FileFolderMeta.py:160: decompress(self.path, self.get_data()), dec the
\* decompressed bytes or NoneV when decompression failed
OpenDecompressed(w, id, dec) ==
  IF dec = NoneV THEN Raise(w, "DecompressError", id)
  ELSE StoreReader(w, id, OpenFS(w.heap[id].format, dec[1]))

\* FileFolderMeta.py:160, d the result of get_data()
OpenPayload(d, id) ==
  IF Failed(d.w) THEN d.w
  ELSE OpenDecompressed(d.w, id, decompress(d.w.heap[id].path, d.ret))

\* FileFolderMeta.py:159-160: open the reader from the (decompressed) payload
OpenReader(w, id) == OpenPayload(get_data(w, id), id)

\* FileFolderMeta.py:168-173: the timestamps of a member with a payload
MemberModTime(t) == IF t = NoneV THEN "" ELSE strftime(t[1])
SetMember(w, id, r) ==
  [w EXCEPT !.heap[id].data = r.data, !.heap[id].create_time = "",
            !.heap[id].mod_time = MemberModTime(r.mod_time)]

\* FileFolderMeta.py:176-178
AppendToParent(w, pid, cid) ==
  [w EXCEPT !.heap[pid].children = Some(Append(IF @ = NoneV THEN <<>> ELSE @[1], cid))]

\* FileFolderMeta.py:180
AppendToSelf(w, id, cid) ==
  [w EXCEPT !.heap[id].children = Some(Append(@[1], cid))]

RECURSIVE get_obj(_, _, _, _)
RECURSIVE HandleTrial(_, _, _)
RECURSIVE Trial(_, _, _, _, _)
RECURSIVE ListTrial(_, _)
RECURSIVE CallClass(_, _, _, _, _, _)
RECURSIVE Listing(_, _, _)
RECURSIVE NiemaFS_iter(_, _, _)
RECURSIVE AssembleAll(_, _, _)
RECURSIVE Assemble(_, _, _, _, _, _)
RECURSIVE MakeMember(_, _, _)
RECURSIVE Attach(_, _, _, _, _, _)
RECURSIVE Directory_iter(_, _, _)
RECURSIVE Collect(_, _, _, _, _)
RECURSIVE Collected(_, _, _, _, _)

\* FileFolderMeta.py:267-283
get_obj(w, path, data, depth) ==
  IF depth > RecLimit THEN Ret(Raise(w, "RecursionError", 0), 0)
  ELSE IF is_dir(path) THEN Alloc(w, FFM_Directory(path))
  ELSE IF clean_ext(suffix(path)) \in COMPRESSED_EXTENSIONS /\ Len(suffixes(path)) < 2
  THEN Ret(Raise(w, "IndexError", 0), 0)
  ELSE IF FormatHint(path) \in DOMAIN INPUT_FORMAT_TO_CLASS
  THEN HandleTrial(Trial(NoteAt(w, "trial", path, FormatHint(path)),
                         INPUT_FORMAT_TO_CLASS[FormatHint(path)], path, data, depth),
                   path, data)
  ELSE Alloc(w, FFM_File(path, data))

\* FileFolderMeta.py:277-283: t is the outcome of the try block
HandleTrial(t, path, data) ==
  IF ~Failed(t.w) THEN t
  ELSE IF Catches(t.w.exc)
  THEN Alloc([NoteAt(t.w, "swallow", path, t.w.exc) EXCEPT !.exc = ""], FFM_File(path, data))
  ELSE t

\* FileFolderMeta.py:278-280: tmp = cls(path, data=data); list(tmp); return tmp
Trial(w, cls, path, data, depth) == ListTrial(CallClass(w, cls, path, data, TRUE, depth), depth)

\* FileFolderMeta.py:279-280: c is the outcome of the constructor call
ListTrial(c, depth) ==
  IF Failed(c.w) THEN c ELSE Ret(Listing(c.w, c.ret, depth).w, c.ret)

\* calling an entry of INPUT_FORMAT_TO_CLASS (FileFolderMeta.py:278, 328);
\* kw tells whether data is passed by keyword
CallClass(w, cls, path, data, kw, depth) ==
  IF cls = "get_obj"
  THEN get_obj(IF kw THEN NoteAt(w, "reenter", path, "") ELSE w, path, data, depth + 1)
  ELSE IF cls = "FFM_Directory"
  THEN IF kw THEN Ret(Raise(w, "TypeError", 0), 0) ELSE Alloc(w, FFM_Directory(path))
  ELSE IF cls = "FFM_File" THEN Alloc(w, FFM_File(path, data))
  ELSE Alloc(w, FFM_NiemaFS(ClassFormat[cls], path, data))

\* list(obj): FFM_File defines no __iter__
Listing(w, id, depth) ==
  IF w.heap[id].cls = "FFM_File" THEN Ret(Raise(w, "TypeError", id), <<>>)
  ELSE IF w.heap[id].cls = "FFM_Directory" THEN Directory_iter(w, id, depth)
  ELSE NiemaFS_iter(w, id, depth)

\* FileFolderMeta.py:100: self.children = sorted(...), ch the sorted ids
StoreChildren(w, id, ch) == Ret([w EXCEPT !.heap[id].children = Some(ch)], ch)

\* FileFolderMeta.py:100: sorted(...), c the outcome of the generator
SortCollected(c, id) ==
  IF Failed(c.w) THEN c ELSE StoreChildren(c.w, id, SortByName(c.w.heap, c.ret))

\* FileFolderMeta.py:98-101
Directory_iter(w, id, depth) ==
  IF w.heap[id].children # NoneV THEN Ret(w, w.heap[id].children[1])
  ELSE SortCollected(Collect(w, glob(w.heap[id].path), 1, <<>>, depth), id)

\* FileFolderMeta.py:100: (get_obj(p) for p in self.path.glob('*'))
Collect(w, paths, i, acc, depth) ==
  IF i > Len(paths) THEN Ret(w, acc)
  ELSE Collected(get_obj(w, paths[i], NoneV, depth + 1), paths, i, acc, depth)

\* FileFolderMeta.py:100: g is the outcome of get_obj(p)
Collected(g, paths, i, acc, depth) ==
  IF Failed(g.w) THEN Ret(g.w, acc)
  ELSE Collect(g.w, paths, i + 1, Append(acc, g.ret), depth)

\* FileFolderMeta.py:182: return iter(self.children), w the world after the loop
IterResult(w, id) == Ret(w, IF Failed(w) THEN <<>> ELSE w.heap[id].children[1])

\* FileFolderMeta.py:157-182
NiemaFS_iter(w, id, depth) ==
  IF w.heap[id].children # NoneV THEN Ret(w, w.heap[id].children[1])
  ELSE AssembleAll(IF w.heap[id].fs = NoneV THEN OpenReader(w, id) ELSE w, id, depth)

\* FileFolderMeta.py:161-181: w is the world once self.fs is set
AssembleAll(w, id, depth) ==
  IF Failed(w) THEN Ret(w, <<>>)
  ELSE IterResult(Assemble(Note([w EXCEPT !.heap[id].children = Some(<<>>)], "consume", id, ""),
                           id, w.heap[id].fs[1], 1, <<>>, depth),
                  id)

\* FileFolderMeta.py:163: the loop over self.fs at record i; map is fs_path_to_obj
Assemble(w, id, recs, i, map, depth) ==
  IF i > Len(recs) THEN Note(w, "assembled", id, "")
  ELSE IF recs[i].bad THEN Raise(w, "ReaderError", id)
  ELSE Attach(MakeMember(w, recs[i], depth), id, recs, i, map, depth)

\* FileFolderMeta.py:168-173: g is the outcome of get_obj for the member
MarkMember(g, r) == IF Failed(g.w) THEN g ELSE Ret(SetMember(g.w, g.ret, r), g.ret)

\* FileFolderMeta.py:164-173
MakeMember(w, r, depth) ==
  IF r.data = NoneV THEN Alloc(w, FFM_Directory(r.path))
  ELSE MarkMember(get_obj(w, r.path, r.data, depth + 1), r)

\* FileFolderMeta.py:174-181: c is the new member object
Attach(c, id, recs, i, map, depth) ==
  IF Failed(c.w) THEN c.w
  ELSE IF Len(recs[i].path) > 1
  THEN IF parent(recs[i].path) \notin DOMAIN map THEN Raise(c.w, "KeyError", id)
       ELSE IF c.w.heap[map[parent(recs[i].path)]].cls = "FFM_File"
       THEN Raise(c.w, "AttributeError", id)
       ELSE Assemble(AppendToParent(c.w, map[parent(recs[i].path)], c.ret),
                     id, recs, i + 1, (recs[i].path :> c.ret) @@ map, depth)
  ELSE Assemble(AppendToSelf(c.w, id, c.ret),
                id, recs, i + 1, (recs[i].path :> c.ret) @@ map, depth)

(* ----------------------------- serializer ----------------------------- *)
\* FileFolderMeta.py:190-215: the format-specific fields, taken from the reader
FormatExtras(fmt) ==
  IF fmt = "ISO"
  THEN [k \in {"physical_logical_block_size", "user_data_offset", "user_data_size",
               "logical_block_size"} |-> <<"fs", k>>]
  ELSE IF fmt \in {"GCM", "WII"}
  THEN [k \in {"game_code", "maker_code", "disk_id", "version", "game_name"} |-> <<"fs", k>>]
  ELSE <<>>

RECURSIVE to_dict(_, _, _)
RECURSIVE ChildrenToDict(_, _, _, _, _)
RECURSIVE ChildDone(_, _, _, _, _)
RECURSIVE DirDict(_, _, _)
RECURSIVE ContainerDict(_, _, _)
RECURSIVE ContainerChildren(_, _, _, _)

\* [child.to_dict() for child in self], after the iteration produced ids
ChildrenToDict(w, ids, i, acc, depth) ==
  IF i > Len(ids) THEN Ret(w, acc)
  ELSE ChildDone(to_dict(w, ids[i], depth), ids, i, acc, depth)

\* c is the outcome of child.to_dict()
ChildDone(c, ids, i, acc, depth) ==
  IF Failed(c.w) THEN Ret(c.w, acc)
  ELSE ChildrenToDict(c.w, ids, i + 1, Append(acc, c.ret), depth)

\* the dict once the children are serialized (FileFolderMeta.py:103-106, 186-219)
WithChildren(ch, fields) ==
  IF Failed(ch.w) THEN Ret(ch.w, <<>>) ELSE Ret(ch.w, fields @@ ("children" :> ch.ret))

\* FileFolderMeta.py:102-106: it is the outcome of iterating the directory
DirDict(it, path, depth) ==
  IF Failed(it.w) THEN Ret(it.w, <<>>)
  ELSE WithChildren(ChildrenToDict(it.w, it.ret, 1, <<>>, depth),
                    ("name" :> PathName(path)) @@ ("format" :> "DIR"))

\* FileFolderMeta.py:187-219: it is the outcome of iterating the container,
\* fields the dict of FFM_File.to_dict
ContainerChildren(it, id, fields, depth) ==
  IF Failed(it.w) THEN Ret(it.w, <<>>)
  ELSE WithChildren(ChildrenToDict(it.w, it.ret, 1, <<>>, depth),
                    ("format" :> it.w.heap[id].format) @@ FormatExtras(it.w.heap[id].format)
                      @@ fields)

\* FileFolderMeta.py:184-219: f is the outcome of super().to_dict()
ContainerDict(f, id, depth) ==
  IF Failed(f.w) THEN Ret(f.w, <<>>)
  ELSE ContainerChildren(NiemaFS_iter(f.w, id, depth), id, f.ret, depth)

\* FileFolderMeta.py:102-106 (FFM_Directory), 138-147 (FFM_File),
\* 184-219 (FFM_NiemaFS)
to_dict(w, id, depth) ==
  IF w.heap[id].cls = "FFM_Directory"
  THEN DirDict(Directory_iter(w, id, depth), w.heap[id].path, depth)
  ELSE IF w.heap[id].cls = "FFM_File" THEN File_to_dict(w, id)
  ELSE ContainerDict(File_to_dict(w, id), id, depth)

(* ------------------------------- inputs ------------------------------- *)
Garbage == <<9>>
ZipRoot == <<80, 0>>             \* a zip whose members are the stream
TarRoot == <<84, 0>>             \* a tar whose members are the stream
GzTarRoot == <<31, 84, 0>>       \* the same tar, gzip-compressed
GzGarbage == <<31, 9>>           \* gzip-compressed bytes that are no archive
RootBytes == {Garbage, ZipRoot, TarRoot, GzTarRoot, GzGarbage}

RootNames ==
  {<<"a", "zip">>, <<"a", "tar", "gz">>, <<"a", "gz">>, <<"a", "auto">>,
   <<"a", "dir">>, <<"a", "file">>, <<"a", "txt">>, <<"a", "bin">>}

Formats == {"AUTO", "ZIP", "TAR", "FILE", "DIR"}

Top == << <<"top">> >>
\* what the directory given as input may hold
TopKids ==
  {FileEntry(Top \o << <<"z", "txt">> >>, RawB, TRUE),
   FileEntry(Top \o << <<"a", "zip">> >>, ZipRoot, TRUE),
   FileEntry(Top \o << <<"b", "zip">> >>, Garbage, TRUE),
   DirEntry(Top \o << <<"b">> >>)}

\* a directory of the working directory named like the member d of an archive
Collision ==
  {DirEntry(<< <<"d">> >>),
   FileEntry(<< <<"d">>, <<"z">> >>, RawB, TRUE),
   FileEntry(<< <<"d">>, <<"b">> >>, RawA, TRUE)}

Scn(p, d, f, s) == [input |-> p, disk |-> d, format |-> f, stream |-> s]

\* archives given as input, with every member stream up to MaxRecs
TreeScenarios ==
  {Scn(<<x[1]>>, {FileEntry(<<x[1]>>, x[2], TRUE)} \cup (IF c THEN Collision ELSE {}), f, s) :
     x \in {<<(<<"a", "zip">>), ZipRoot>>, <<(<<"a", "tar", "gz">>), GzTarRoot>>},
     c \in BOOLEAN, f \in {"AUTO", "ZIP", "TAR"}, s \in SeqsUpTo(Records, MaxRecs)}

\* every name with every content, under every format option
DispatchScenarios ==
  {Scn(<<n>>, {FileEntry(<<n>>, b, r)}, f, s) :
     n \in RootNames, b \in RootBytes, r \in BOOLEAN, f \in Formats,
     s \in SeqsUpTo(Records, 1)}

\* a directory given as input
DirScenarios ==
  {Scn(Top, {DirEntry(Top)} \cup k, f, s) :
     k \in SUBSET TopKids, f \in {"AUTO", "DIR"}, s \in SeqsUpTo(Records, 1)}

Scenarios == TreeScenarios \cup DispatchScenarios \cup DirScenarios

(* ------------------------------- main --------------------------------- *)
Init ==
  /\ \E sc \in Scenarios :
       /\ disk = sc.disk
       /\ input = sc.input
       /\ input_format = sc.format
       /\ stream = sc.stream
  /\ pc = "start"
  /\ world = EmptyWorld
  /\ root = 0
  /\ out = NoneV
  /\ iters = <<>>

\* FileFolderMeta.py:325, 328: root = ..., r the outcome of the call
Resolved(r) ==
  /\ world' = r.w
  /\ root' = IF Failed(r.w) THEN 0 ELSE r.ret
  /\ pc' = IF Failed(r.w) THEN "aborted" ELSE "resolved"

\* FileFolderMeta.py:323-328
Resolve ==
  /\ pc = "start"
  /\ Resolved(IF input_format = "AUTO" THEN get_obj(world, input, NoneV, 1)
              ELSE CallClass(world, INPUT_FORMAT_TO_CLASS[input_format], input, NoneV,
                             FALSE, 0))
  /\ UNCHANGED <<disk, input, input_format, stream, out, iters>>

\* FileFolderMeta.py:338: jdump(root.to_dict(), ...), t the outcome of to_dict()
Serialized(t) ==
  /\ world' = t.w
  /\ out' = IF Failed(t.w) THEN NoneV ELSE Some(t.ret)
  /\ pc' = IF Failed(t.w) THEN "aborted" ELSE "done"

\* FileFolderMeta.py:338
Serialize ==
  /\ pc = "resolved"
  /\ Serialized(to_dict(world, root, 0))
  /\ UNCHANGED <<disk, input, input_format, stream, root, iters>>

\* FileFolderMeta.py:157-182: l is the outcome of one list(root)
Iterated(l) ==
  /\ world' = [l.w EXCEPT !.exc = ""]
  /\ iters' = Append(iters, [raised |-> l.w.exc, children |-> l.ret])

\* list(root) by a caller that holds on to the entity and handles the error
Iterate ==
  /\ pc = "resolved"
  /\ world.heap[root].cls = "FFM_NiemaFS"
  /\ Len(iters) < MaxIters
  /\ Iterated(NiemaFS_iter(world, root, 0))
  /\ UNCHANGED <<disk, input, input_format, stream, pc, root, out>>

Next == Resolve \/ Serialize
Spec == Init /\ [][Next]_vars

NextIter == Resolve \/ Iterate
SpecIter == Init /\ [][NextIter]_vars

(* ----------------------------- properties ----------------------------- *)
Log == world.log
Events(kind) == {i \in DOMAIN Log : Log[i].ev = kind}
Raised(type, id) == \E i \in Events("raise") : Log[i].info = type /\ Log[i].id = id
Auto == input_format = "AUTO"
\* get_obj(input) itself raised
GetObjRaised == Auto /\ pc = "aborted" /\ root = 0
ContainerFormats == DOMAIN INPUT_FORMAT_TO_CLASS \ {"DIR", "FILE", "AUTO"}
HasHint(path) ==
  ~(clean_ext(suffix(path)) \in COMPRESSED_EXTENSIONS /\ Len(suffixes(path)) < 2)
\* the trial object of get_obj(input) is the first object allocated
TrialOfInputFailed == ~(\E i \in Events("assembled") : Log[i].id = 1)

\* C1: when get_obj is given a non-directory path whose format hint is a
\* container format and the construction or the first listing of the trial
\* object fails, for whatever reason, get_obj raises nothing and returns a
\* plain FFM_File for that path.
C1_FallbackToFile ==
  (pc # "start" /\ Auto /\ ~is_dir(input) /\ HasHint(input)
     /\ FormatHint(input) \in ContainerFormats)
  => /\ ~GetObjRaised
     /\ TrialOfInputFailed
          => /\ root # 0
             /\ world.heap[root].cls = "FFM_File"
             /\ world.heap[root].path = input

\* C1 witness: the trial of a.zip failed on a missing parent and the path
\* resolved to a plain file
C1_Witness ==
  /\ pc = "resolved" /\ Auto /\ FormatHint(input) = "ZIP"
  /\ Raised("KeyError", 1)
  /\ world.heap[root].cls = "FFM_File"

\* the container given as input raised the lookup error of line 175
RootOrphan == Raised("KeyError", 1) /\ world.heap[1].path = input

\* C2 as stated: once the reader of the input container emitted a record
\* whose parent was never emitted, the run is aborted and no serialized tree
\* exists, under automatic dispatch as under a forced format.
C2_OrphanAlwaysAborts == RootOrphan => (pc = "aborted" /\ out = NoneV)

\* C2 amended: under a forced format the run aborts and nothing is
\* serialized; under automatic dispatch the error is handled inside get_obj
\* and the container resolves to a plain FFM_File, which is what gets
\* serialized.  Every such error of a container built by get_obj is handled.
C2_OrphanForcedAbortsAutoFallsBack ==
  /\ RootOrphan =>
       IF Auto
       THEN /\ pc \in {"resolved", "done"}
            /\ world.heap[root].cls = "FFM_File"
            /\ pc = "done" => (out[1].format = "FILE" /\ "children" \notin DOMAIN out[1])
       ELSE pc = "aborted" /\ out = NoneV
  /\ \A i \in Events("raise") :
       (Log[i].info = "KeyError" /\ (Auto \/ Log[i].id # 1))
         => \E j \in Events("swallow") : j > i /\ Log[j].info = "KeyError"

\* C2 witnesses: both branches of the amended statement
C2_Witness ==
  /\ RootOrphan /\ ~Auto /\ pc = "aborted" /\ Len(stream) > 1
C2_WitnessAuto ==
  /\ RootOrphan /\ Auto /\ pc = "done" /\ out[1].format = "FILE"

(* walking the serialized tree along the heap *)
NodeNames(nodes) == [i \in DOMAIN nodes |-> nodes[i].name]
IsContainerRoot == pc = "done" /\ out[1].format \in {"ZIP", "TAR"}
TopRecs == SelectSeq(stream, LAMBDA r : Len(r.path) = 1)
Below(path) == SelectSeq(stream, LAMBDA r : Len(r.path) > 1 /\ parent(r.path) = path)
ParentFirst ==
  \A i \in DOMAIN stream :
    /\ ~stream[i].bad
    /\ Len(stream[i].path) > 1 => \E j \in 1..(i - 1) : stream[j].path = parent(stream[i].path)
DistinctPaths == \A i, j \in DOMAIN stream : stream[i].path = stream[j].path => i = j
SameNames(nodes, recs) ==
  /\ Len(nodes) = Len(recs)
  /\ {nodes[i].name : i \in DOMAIN nodes} = {PathName(recs[i].path) : i \in DOMAIN recs}

\* C3: for a parent-before-child stream the container has one child per
\* record without '/', in emission order, and the DIR node of a directory
\* record has exactly the records below it as children (none if none).
C3_TreeMatchesRecords ==
  (IsContainerRoot /\ ParentFirst /\ DistinctPaths)
  => /\ Len(out[1].children) = Len(TopRecs)
     /\ \A i \in DOMAIN TopRecs :
          /\ out[1].children[i].name = PathName(TopRecs[i].path)
          /\ TopRecs[i].data = NoneV
               => /\ out[1].children[i].format = "DIR"
                  /\ SameNames(out[1].children[i].children, Below(TopRecs[i].path))

RECURSIVE DirsSorted(_)
DirsSorted(node) ==
  /\ "children" \in DOMAIN node =>
       \A i \in DOMAIN node.children : DirsSorted(node.children[i])
  /\ node.format = "DIR" =>
       \A i, j \in DOMAIN node.children :
         i < j => ~NameLess(node.children[j].name, node.children[i].name)

\* C4: in a serialized tree the children of every DIR node are sorted by name.
C4_DirChildrenSorted == pc = "done" => DirsSorted(out[1])

\* C5: the node of a member record with a payload has no create_time key and
\* has a mod_time key exactly when the reader supplied a timestamp.
C5_MemberTimestamps ==
  (IsContainerRoot /\ ParentFirst /\ DistinctPaths)
  => \A i \in DOMAIN TopRecs :
       TopRecs[i].data # NoneV
         => /\ "create_time" \notin DOMAIN out[1].children[i]
            /\ "mod_time" \in DOMAIN out[1].children[i] <=> TopRecs[i].mod_time # NoneV
            /\ TopRecs[i].mod_time # NoneV
                 => out[1].children[i].mod_time = strftime(TopRecs[i].mod_time[1])

AllRecords ==
  {stream[i] : i \in DOMAIN stream} \cup {ArchiveStream(1)[1], ArchiveStream(2)[1]}
\* the payload an entity was given: read from disk, or handed over by a reader
StoredRaw(id) ==
  LET o == world.heap[id]
  IN  IF \E i \in Events("read") : Log[i].id = id
      THEN o.data = Some(DiskAt(o.path).bytes)
      ELSE \E r \in AllRecords : r.path = o.path /\ r.data = o.data
RECURSIVE PayloadOK(_, _)
PayloadOK(node, id) ==
  /\ node.format # "DIR" =>
       /\ StoredRaw(id)
       /\ node.size = Len(world.heap[id].data[1])
       /\ \A k \in HASH_FUNCTIONS : node[k] = Digest(k, world.heap[id].data[1])
  /\ "children" \in DOMAIN node =>
       /\ Len(node.children) = Len(world.heap[id].children[1])
       /\ \A i \in DOMAIN node.children :
            PayloadOK(node.children[i], world.heap[id].children[1][i])

\* C6: size and hashes of every FILE or container node are those of the
\* entity's own stored payload (the bytes read from disk or handed over by
\* the parent's reader), also for a container with a compression wrapper.
C6_HashesOverRawPayload == pc = "done" => PayloadOK(out[1], root)

\* C6 witness: a.tar.gz serialized as a TAR container with members; its size
\* is that of the compressed file
C6_Witness ==
  /\ pc = "done" /\ input = << <<"a", "tar", "gz">> >>
  /\ out[1].format = "TAR" /\ Len(out[1].children) > 0
  /\ out[1].size = Len(GzTarRoot)

\* C7: for a non-directory path ending in a compression wrapper extension
\* get_obj returns an entity and never raises.
C7_WrapperNeverRaises ==
  (Auto /\ ~is_dir(input) /\ clean_ext(suffix(input)) \in COMPRESSED_EXTENSIONS)
  => ~GetObjRaised

\* C8: over resolution and serialization the bytes of a path are read from
\* disk at most once.
C8_ReadAtMostOnce ==
  \A e \in disk : Cardinality({i \in Events("read") : Log[i].path = e.path}) <= 1

\* C9: over the iterations of one container entity the reader is opened at
\* most once, the member stream is consumed at most once, and every
\* iteration that returns yields the same, completely assembled child list.
C9_IterationsAgree ==
  /\ Cardinality({i \in Events("open") : Log[i].id = root}) <= 1
  /\ Cardinality({i \in Events("consume") : Log[i].id = root}) <= 1
  /\ \A i \in DOMAIN iters :
       iters[i].raised = ""
         => /\ \E j \in Events("assembled") : Log[j].id = root
            /\ \A k \in DOMAIN iters : iters[k].raised = "" => iters[k].children = iters[i].children

\* C10: for a non-directory path get_obj makes at most one trial construction
\* and never calls itself on the same path; the extensions DIR, FILE and AUTO
\* give a plain FFM_File.
C10_NoSelfReentry ==
  (pc # "start" /\ Auto /\ ~is_dir(input))
  => /\ Events("reenter") = {}
     /\ Cardinality({i \in Events("trial") : Log[i].path = input}) <= 1
     /\ (HasHint(input) /\ FormatHint(input) \in {"DIR", "FILE", "AUTO"})
          => world.heap[root].cls = "FFM_File"

====
